---- MODULE Spec2Model ----
(***************************************************************************)
(* sinogram (src/main.go): a codec that rewrites pairs of base64 symbols   *)
(* as single CJK characters taken from a dictionary text, and back.        *)
(*                                                                         *)
(* Representation.  A Go string or []byte is a sequence of bytes (0..255). *)
(* A rune is its code point (an integer).  A Go map is a function whose    *)
(* DOMAIN is the set of keys present.  A base64 pair (a two-byte string)   *)
(* is a sequence of two bytes.                                             *)
(***************************************************************************)
EXTENDS Integers, Sequences, FiniteSets, TLC

VARIABLES
  pairToRune,   \* Codec.pairToRune : map[string]rune
  runeToPair,   \* Codec.runeToPair : map[rune]string
  loads,        \* number of buildMapping runs this Codec has seen
  call,         \* the last call made: its arguments and what it returned
  saved         \* what the last call wrote to its output path (NoFile: nothing)

vars == <<pairToRune, runeToPair, loads, call, saved>>

-----------------------------------------------------------------------------
(* Program constants (src/main.go:11-16).                                  *)

minDictChars == 256
maxPairs == 4096

\* base64Charset, 1-based: "A".."Z", "a".."z", "0".."9", "+", "/"
base64Charset ==
  [k \in 1..64 |->
     IF k <= 26 THEN 64 + k
     ELSE IF k <= 52 THEN 70 + k
     ELSE IF k <= 62 THEN k - 5
     ELSE IF k = 63 THEN 43 ELSE 47]

PadByte == 61         \* '='
RuneError == 65533    \* U+FFFD, what Go yields for an invalid UTF-8 byte

Nil == [kind |-> "nil"]            \* a nil error
NoFile == [written |-> FALSE]      \* the output path was not written
File(content) == [written |-> TRUE, content |-> content]

EmptyMap == <<>>      \* make(map[..]..): no keys

-----------------------------------------------------------------------------
(* Bounds of the model.                                                    *)

MaxDataLen == 4       \* longest input file given to Encode
MaxTextLen == 3       \* most tokens in a file given to Decode
MaxChars == 70        \* longest short chars sequence given to buildMapping
MaxLoads == 2         \* most successful LoadDictionary calls on one Codec
MaxReloadLen == 1     \* longest Encode / Decode input of a reloaded Codec

-----------------------------------------------------------------------------
(* Go's UTF-8 handling: `for _, r := range text` and WriteRune.            *)

IsCont(b) == b >= 128 /\ b <= 191

\* utf8.DecodeRuneInString at 1-based position p of s: [rune, size].
\* An invalid or truncated encoding yields RuneError of size 1.
DecodeRune(s, p) ==
  LET n  == Len(s) - p + 1
      b0 == s[p]
      b1 == s[p + 1]
      b2 == s[p + 2]
      b3 == s[p + 3]
      bad == [rune |-> RuneError, size |-> 1]
  IN IF b0 < 128 THEN [rune |-> b0, size |-> 1]
     ELSE IF b0 >= 194 /\ b0 <= 223
       THEN IF n >= 2 /\ IsCont(b1)
            THEN [rune |-> (b0 - 192) * 64 + (b1 - 128), size |-> 2]
            ELSE bad
     ELSE IF b0 >= 224 /\ b0 <= 239
       THEN IF /\ n >= 3
               /\ b1 >= (IF b0 = 224 THEN 160 ELSE 128)
               /\ b1 <= (IF b0 = 237 THEN 159 ELSE 191)
               /\ IsCont(b2)
            THEN [rune |-> (b0 - 224) * 4096 + (b1 - 128) * 64 + (b2 - 128),
                  size |-> 3]
            ELSE bad
     ELSE IF b0 >= 240 /\ b0 <= 244
       THEN IF /\ n >= 4
               /\ b1 >= (IF b0 = 240 THEN 144 ELSE 128)
               /\ b1 <= (IF b0 = 244 THEN 143 ELSE 191)
               /\ IsCont(b2)
               /\ IsCont(b3)
            THEN [rune |-> (b0 - 240) * 262144 + (b1 - 128) * 4096
                             + (b2 - 128) * 64 + (b3 - 128),
                  size |-> 4]
            ELSE bad
     ELSE bad

\* utf8.AppendRune, as strings.Builder.WriteRune uses it: the UTF-8 bytes of r;
\* a surrogate or out-of-range rune is written as U+FFFD.
EncodeRune(r) ==
  IF r < 0 \/ r > 1114111 \/ (r >= 55296 /\ r <= 57343) THEN <<239, 191, 189>>
  ELSE IF r <= 127 THEN <<r>>
  ELSE IF r <= 2047 THEN <<192 + r \div 64, 128 + (r % 64)>>
  ELSE IF r <= 65535
    THEN <<224 + r \div 4096, 128 + ((r \div 64) % 64), 128 + (r % 64)>>
  ELSE <<240 + r \div 262144, 128 + ((r \div 4096) % 64),
         128 + ((r \div 64) % 64), 128 + (r % 64)>>

-----------------------------------------------------------------------------
(* encoding/base64, StdEncoding: the standard alphabet with '=' padding.   *)

\* EncodeToString: three bytes give four symbols; a remainder of one byte
\* gives two symbols and "==", of two bytes three symbols and "=".
RECURSIVE EncodeToString(_)
EncodeToString(data) ==
  IF Len(data) = 0 THEN <<>>
  ELSE IF Len(data) = 1
    THEN <<base64Charset[data[1] \div 4 + 1],
           base64Charset[(data[1] % 4) * 16 + 1], PadByte, PadByte>>
  ELSE IF Len(data) = 2
    THEN <<base64Charset[data[1] \div 4 + 1],
           base64Charset[(data[1] % 4) * 16 + data[2] \div 16 + 1],
           base64Charset[(data[2] % 16) * 4 + 1], PadByte>>
  ELSE <<base64Charset[data[1] \div 4 + 1],
         base64Charset[(data[1] % 4) * 16 + data[2] \div 16 + 1],
         base64Charset[(data[2] % 16) * 4 + data[3] \div 64 + 1],
         base64Charset[(data[3] % 64) + 1]>>
       \o EncodeToString(SubSeq(data, 4, Len(data)))

\* Encoding.decodeMap: the 6-bit value of an alphabet byte, 255 for any other.
decodeMap(b) ==
  IF b >= 65 /\ b <= 90 THEN b - 65
  ELSE IF b >= 97 /\ b <= 122 THEN b - 71
  ELSE IF b >= 48 /\ b <= 57 THEN b + 4
  ELSE IF b = 43 THEN 62
  ELSE IF b = 47 THEN 63
  ELSE 255

IsNewline(b) == b = 10 \/ b = 13

\* `for si < len(src) && (src[si] == '\n' || src[si] == '\r') { si++ }`
\* (si is the 0-based offset, as in the Go code).
RECURSIVE skipNewlines(_, _)
skipNewlines(src, si) ==
  IF si < Len(src) /\ IsNewline(src[si + 1]) THEN skipNewlines(src, si + 1) ELSE si

\* The last part of decodeQuantum: dlen symbols of dbuf give dlen - 1 bytes
\* (StdEncoding is not strict: left-over bits are not checked).
quantumBytes(dbuf, dlen) ==
  LET val == dbuf[1] * 262144 + dbuf[2] * 4096 + dbuf[3] * 64 + dbuf[4]
      all == <<val \div 65536, (val \div 256) % 256, val % 256>>
  IN SubSeq(all, 1, dlen - 1)

CorruptInputError(offset) == [kind |-> "CorruptInputError", offset |-> offset]

\* Encoding.decodeQuantum, the loop `for j := 0; j < len(dbuf); j++`:
\* [si, bytes, err] for the quantum starting at offset si with j symbols read.
RECURSIVE decodeQuantum(_, _, _, _)
decodeQuantum(src, si, j, dbuf) ==
  IF j = 4 THEN [si |-> si, bytes |-> quantumBytes(dbuf, 4), err |-> Nil]
  ELSE IF Len(src) = si
    THEN IF j = 0 THEN [si |-> si, bytes |-> <<>>, err |-> Nil]
         ELSE [si |-> si, bytes |-> <<>>, err |-> CorruptInputError(si - j)]
  ELSE LET in  == src[si + 1]
           out == decodeMap(in)
       IN IF out # 255
            THEN decodeQuantum(src, si + 1, j + 1, [dbuf EXCEPT ![j + 1] = out])
          ELSE IF IsNewline(in) THEN decodeQuantum(src, si + 1, j, dbuf)
          ELSE IF in # PadByte
            THEN [si |-> si + 1, bytes |-> <<>>, err |-> CorruptInputError(si)]
          ELSE IF j < 2
            THEN [si |-> si + 1, bytes |-> <<>>, err |-> CorruptInputError(si)]
          ELSE LET s1 == IF j = 2 THEN skipNewlines(src, si + 1) ELSE si + 1
               IN IF j = 2 /\ s1 = Len(src)
                    THEN [si |-> s1, bytes |-> <<>>,
                          err |-> CorruptInputError(Len(src))]
                  ELSE IF j = 2 /\ src[s1 + 1] # PadByte
                    THEN [si |-> s1, bytes |-> <<>>,
                          err |-> CorruptInputError(s1 - 1)]
                  ELSE LET s2 == skipNewlines(src, IF j = 2 THEN s1 + 1 ELSE s1)
                       IN [si |-> s2, bytes |-> quantumBytes(dbuf, j),
                           err |-> IF s2 < Len(src)
                                   THEN CorruptInputError(s2) ELSE Nil]

\* Encoding.Decode: `for si < len(src) { decodeQuantum; if err != nil return }`.
RECURSIVE decodeLoop(_, _, _)
decodeLoop(src, si, dst) ==
  IF si < Len(src)
  THEN LET q == decodeQuantum(src, si, 0, <<0, 0, 0, 0>>)
       IN IF q.err # Nil THEN [bytes |-> dst \o q.bytes, err |-> q.err]
          ELSE decodeLoop(src, q.si, dst \o q.bytes)
  ELSE [bytes |-> dst, err |-> Nil]

\* Encoding.DecodeString: the bytes decoded so far, and the error if any.
DecodeString(s) == decodeLoop(s, 0, <<>>)

-----------------------------------------------------------------------------
(* The dictionary: extractChineseCharacters, isChineseChar, buildMapping.  *)
(* A dictionary text is the sequence of runes `range text` yields.         *)

\* isChineseChar: CJK Unified Ideographs, Extension A, Extension B.
isChineseChar(r) ==
  \/ (r >= 19968 /\ r <= 40959)
  \/ (r >= 13312 /\ r <= 19903)
  \/ (r >= 131072 /\ r <= 173791)

\* One iteration of `for _, r := range text` in extractChineseCharacters.
extractStep(text, s, p) ==
  LET r == text[p]
  IN IF r \notin s.seen /\ isChineseChar(r)
     THEN [seen |-> s.seen \cup {r}, chars |-> Append(s.chars, r)]
     ELSE s

\* Iterations lo..hi of that loop, in order, from loop state s.  (The range is
\* halved so that the evaluation stays shallow; the iterations run left to
\* right, each on the state the one before it left.)
RECURSIVE extractLoop(_, _, _, _)
extractLoop(text, s, lo, hi) ==
  IF Len(s.chars) < 0 \/ lo > hi THEN s
  ELSE IF lo = hi THEN extractStep(text, s, lo)
  ELSE extractLoop(text, extractLoop(text, s, lo, (lo + hi) \div 2),
                   (lo + hi) \div 2 + 1, hi)

extractChineseCharacters(text) ==
  extractLoop(text, [seen |-> {}, chars |-> <<>>], 1, Len(text)).chars

\* m[k] = v on a Go map.
MapPut(m, k, v) == (k :> v) @@ m

\* buildStep with the two indices of the pair exchanged (column-major).
buildStep_columnMajor(c, chars, i, j) ==
  IF c.idx < Len(chars)
  THEN LET pair == <<base64Charset[j + 1], base64Charset[i + 1]>>
           char == chars[c.idx + 1]
       IN [pairToRune |-> MapPut(c.pairToRune, pair, char),
           runeToPair |-> MapPut(c.runeToPair, char, pair),
           idx |-> c.idx + 1]
  ELSE c

\* The body of the inner loop of buildMapping for (i, j), run only while the
\* loop condition `idx < len(chars)` holds; once it fails it fails for every
\* later (i, j), so the remaining iterations leave the state alone.
buildStep(c, chars, i, j) ==
  IF c.idx < Len(chars)
  THEN LET pair == <<base64Charset[i + 1], base64Charset[j + 1]>>
           char == chars[c.idx + 1]
       IN [pairToRune |-> MapPut(c.pairToRune, pair, char),
           runeToPair |-> MapPut(c.runeToPair, char, pair),
           idx |-> c.idx + 1]
  ELSE c

\* `for j := 0; j < 64 && idx < len(chars); j++`, iterations lo..hi in order.
RECURSIVE buildInner(_, _, _, _, _)
buildInner(c, chars, i, lo, hi) ==
  IF c.idx < 0 THEN c
  ELSE IF lo = hi THEN buildStep(c, chars, i, lo)
  ELSE buildInner(buildInner(c, chars, i, lo, (lo + hi) \div 2),
                  chars, i, (lo + hi) \div 2 + 1, hi)

\* buildOuter with the inner loop one iteration short (`j < 63`).
RECURSIVE buildOuter_shortRows(_, _, _, _)
buildOuter_shortRows(c, chars, lo, hi) ==
  IF c.idx < 0 THEN c
  ELSE IF lo = hi THEN buildInner(c, chars, lo, 0, 62)
  ELSE buildOuter_shortRows(buildOuter_shortRows(c, chars, lo, (lo + hi) \div 2),
                            chars, (lo + hi) \div 2 + 1, hi)

\* `for i := 0; i < 64 && idx < len(chars); i++`, iterations lo..hi in order.
RECURSIVE buildOuter(_, _, _, _)
buildOuter(c, chars, lo, hi) ==
  IF c.idx < 0 THEN c
  ELSE IF lo = hi THEN buildInner(c, chars, lo, 0, 63)
  ELSE buildOuter(buildOuter(c, chars, lo, (lo + hi) \div 2),
                  chars, (lo + hi) \div 2 + 1, hi)

\* Codec.buildMapping on the maps p2r, r2p: the maps it leaves.
buildMapping(p2r, r2p, chars) ==
  LET c == buildOuter([pairToRune |-> p2r, runeToPair |-> r2p, idx |-> 0],
                      chars, 0, 63)
  IN [pairToRune |-> c.pairToRune, runeToPair |-> c.runeToPair]

-----------------------------------------------------------------------------
(* The transform: encodeData, isValidBase64Pair, decodeData.               *)

\* strings.IndexByte(base64Charset, b) != -1
InCharset(b) == \E k \in 1..64 : base64Charset[k] = b

\* isValidBase64Pair looking at the first byte only.
isValidBase64Pair_firstOnly(pair) ==
  Len(pair) = 2 /\ InCharset(pair[1])

isValidBase64Pair(pair) ==
  Len(pair) = 2 /\ InCharset(pair[1]) /\ InCharset(pair[2])

\* `for i := 0; i < len(text)-1; i += 2` of encodeData, from 0-based offset i.
RECURSIVE encodeLoop(_, _, _, _, _)
encodeLoop(p2r, text, i, result, unmapped) ==
  IF i < Len(text) - 1
  THEN LET pair == SubSeq(text, i + 1, i + 2)
       IN IF isValidBase64Pair(pair)
          THEN IF pair \in DOMAIN p2r
               THEN encodeLoop(p2r, text, i + 2,
                               result \o EncodeRune(p2r[pair]), unmapped)
               ELSE encodeLoop(p2r, text, i + 2, result \o pair, unmapped + 1)
          ELSE encodeLoop(p2r, text, i + 2, result \o pair, unmapped)
  ELSE [text |-> result, unmapped |-> unmapped]

\* `text` of encodeData before padding: the base64 form, or the raw bytes.
intermediateText(data, useBase64) ==
  IF useBase64 THEN EncodeToString(data) ELSE data

\* padToEven without the padding.
padToEven_none(text) == text

\* "Pad to even length": `if len(text)%2 != 0 { text += "=" }`.
padToEven(text) ==
  IF Len(text) % 2 # 0 THEN Append(text, PadByte) ELSE text

\* The text encodeData pairs up.
paddedText(data, useBase64) == padToEven(intermediateText(data, useBase64))

\* Codec.encodeData: the encoded string and the count the warning prints.
encodeData(p2r, data, useBase64) ==
  encodeLoop(p2r, paddedText(data, useBase64), 0, <<>>, 0)

\* `for _, r := range text` of decodeData, from 1-based position p.
RECURSIVE decodeRunes(_, _, _, _)
decodeRunes(r2p, text, p, base64Text) ==
  IF p > Len(text) THEN base64Text
  ELSE LET d == DecodeRune(text, p)
       IN IF d.rune \in DOMAIN r2p
          THEN decodeRunes(r2p, text, p + d.size, base64Text \o r2p[d.rune])
          ELSE decodeRunes(r2p, text, p + d.size,
                           base64Text \o EncodeRune(d.rune))

\* base64Str of decodeData: the text rebuilt from the encoded text.
rebuiltText(r2p, text) == decodeRunes(r2p, text, 1, <<>>)

\* decodeData that drops the error of DecodeString and keeps its bytes.
decodeData_errorDropped(r2p, text, useBase64) ==
  LET base64Str == rebuiltText(r2p, text)
  IN IF useBase64 THEN [bytes |-> DecodeString(base64Str).bytes, err |-> Nil]
     ELSE [bytes |-> base64Str, err |-> Nil]

\* Codec.decodeData: [bytes, err].
decodeData(r2p, text, useBase64) ==
  LET base64Str == rebuiltText(r2p, text)
  IN IF useBase64 THEN DecodeString(base64Str)
     ELSE [bytes |-> base64Str, err |-> Nil]

-----------------------------------------------------------------------------
(* The calls: LoadDictionary, Encode, Decode.  Each call names the outcome *)
(* of its file accesses (io) and the content of the file it reads.         *)

IOOutcomes == {"ok", "unreadable", "unwritable"}

\* The threshold test off by one (`<=`).
insufficient_offByOne(uniqueChars) == Len(uniqueChars) <= minDictChars

\* `len(uniqueChars) < minDictChars` of LoadDictionary.
insufficient(uniqueChars) == Len(uniqueChars) < minDictChars

\* Codec.LoadDictionary on a file that holds `text` (when readable).
LoadDictionary(io, text) ==
  LET uniqueChars == extractChineseCharacters(text)
      built == buildMapping(pairToRune, runeToPair, uniqueChars)
  IN /\ io \in {"ok", "unreadable"}
     /\ saved' = NoFile
     /\ IF io = "unreadable"
        THEN /\ call' = [op |-> "LoadDictionary", io |-> io,
                         err |-> [kind |-> "failed to read dictionary"]]
             /\ UNCHANGED <<pairToRune, runeToPair, loads>>
        ELSE IF insufficient(uniqueChars)
        THEN /\ call' = [op |-> "LoadDictionary", io |-> io, text |-> text,
                         err |-> [kind |-> "insufficient Chinese characters",
                                  found |-> Len(uniqueChars),
                                  need |-> minDictChars]]
             /\ UNCHANGED <<pairToRune, runeToPair, loads>>
        ELSE /\ pairToRune' = built.pairToRune
             /\ runeToPair' = built.runeToPair
             /\ loads' = loads + 1
             /\ call' = [op |-> "LoadDictionary", io |-> io, text |-> text,
                         err |-> Nil]

\* Codec.Encode on an input file that holds `data`.
Encode(io, data, useBase64) ==
  LET encoded == encodeData(pairToRune, data, useBase64)
  IN /\ UNCHANGED <<pairToRune, runeToPair, loads>>
     /\ IF io = "unreadable"
        THEN /\ call' = [op |-> "Encode", io |-> io,
                         err |-> [kind |-> "failed to read input"]]
             /\ saved' = NoFile
        ELSE IF io = "unwritable"
        THEN /\ call' = [op |-> "Encode", io |-> io, data |-> data,
                         useBase64 |-> useBase64,
                         err |-> [kind |-> "failed to write output"]]
             /\ saved' = NoFile
        ELSE /\ call' = [op |-> "Encode", io |-> io, data |-> data,
                         useBase64 |-> useBase64, unmapped |-> encoded.unmapped,
                         err |-> Nil]
             /\ saved' = File(encoded.text)

\* Codec.Decode on an input file that holds `text`.
Decode(io, text, useBase64) ==
  LET decoded == decodeData(runeToPair, text, useBase64)
  IN /\ UNCHANGED <<pairToRune, runeToPair, loads>>
     /\ IF io = "unreadable"
        THEN /\ call' = [op |-> "Decode", io |-> io,
                         err |-> [kind |-> "failed to read input"]]
             /\ saved' = NoFile
        ELSE IF decoded.err # Nil
        THEN /\ call' = [op |-> "Decode", io |-> io, text |-> text,
                         useBase64 |-> useBase64,
                         err |-> [kind |-> "decode failed", cause |-> decoded.err]]
             /\ saved' = NoFile
        ELSE IF io = "unwritable"
        THEN /\ call' = [op |-> "Decode", io |-> io, text |-> text,
                         useBase64 |-> useBase64,
                         err |-> [kind |-> "failed to write output"]]
             /\ saved' = NoFile
        ELSE /\ call' = [op |-> "Decode", io |-> io, text |-> text,
                         useBase64 |-> useBase64, err |-> Nil]
             /\ saved' = File(decoded.bytes)

-----------------------------------------------------------------------------
(* Inputs.                                                                 *)

\* A dictionary text: the code points start .. start+len-1 in order, then the
\* last rep of them once more (repeated occurrences).  The code points
\* 19904..19967 (U+4DC0..U+4DFF) lie between the CJK ranges and do not qualify.
DictText(start, len, rep) ==
  [p \in 1..(len + rep) |->
     IF p <= len THEN start + p - 1 ELSE start + len - (p - len)]

DictTexts ==
  { DictText(65, 26, 0),         \* ASCII letters only: 0 qualifying
    DictText(19800, 319, 5),     \* 104 + 151 = 255 qualifying
    DictText(19968, 256, 0),     \* 256 qualifying, from U+4E00
    DictText(19800, 364, 3),     \* 104 + 196 = 300 qualifying
    DictText(131072, 256, 0),    \* 256 qualifying, Extension B (4-byte UTF-8)
    DictText(19904, 4161, 2) }   \* 64 non-qualifying, then 4097 qualifying

\* Bytes of input files: NUL, '/', and 0xFF (never valid in UTF-8).
ByteValues == {0, 47, 255}

RECURSIVE ByteSeqs(_)
ByteSeqs(n) ==
  IF n = 0 THEN {<<>>}
  ELSE LET shorter == ByteSeqs(n - 1)
       IN shorter \cup {Append(d, b) : d \in shorter, b \in ByteValues}

\* Pieces of encoded files: U+4E00, 'A', '=', 0xFF, newline.
Tokens == {<<228, 184, 128>>, <<65>>, <<61>>, <<255>>, <<10>>}

RECURSIVE TokenTexts(_)
TokenTexts(n) ==
  IF n = 0 THEN {<<>>}
  ELSE LET shorter == TokenTexts(n - 1)
       IN shorter \cup {t \o k : t \in shorter, k \in Tokens}

-----------------------------------------------------------------------------
(* Spec: the program, as main runs it.  NewCodec, LoadDictionary once and, *)
(* when it succeeds, one Encode or Decode.                                 *)

Init ==
  /\ pairToRune = EmptyMap
  /\ runeToPair = EmptyMap
  /\ loads = 0
  /\ call = [op |-> "NewCodec"]
  /\ saved = NoFile

Ready == call.op = "LoadDictionary" /\ call.err = Nil

MainLoad ==
  /\ call.op = "NewCodec"
  /\ \E io \in {"ok", "unreadable"}, text \in DictTexts : LoadDictionary(io, text)

MainEncode ==
  /\ Ready
  /\ \E io \in IOOutcomes, data \in ByteSeqs(MaxDataLen), useBase64 \in BOOLEAN :
       Encode(io, data, useBase64)

MainDecode ==
  /\ Ready
  /\ \E io \in IOOutcomes, text \in TokenTexts(MaxTextLen), useBase64 \in BOOLEAN :
       Decode(io, text, useBase64)

Next == MainLoad \/ MainEncode \/ MainDecode

Spec == Init /\ [][Next]_vars

-----------------------------------------------------------------------------
(* SpecBuild: buildMapping as a function, applied to a fresh Codec and a   *)
(* sequence of distinct characters of any length.                          *)

BuildInputs ==
  {DictText(start, n, 0) : start \in {19968, 131072}, n \in 0..MaxChars}
    \cup {DictText(19968, n, 0) : n \in {4095, 4096, 4097}}

InitBuild ==
  /\ pairToRune = EmptyMap
  /\ runeToPair = EmptyMap
  /\ loads = 0
  /\ call \in {[op |-> "chars", chars |-> cs] : cs \in BuildInputs}
  /\ saved = NoFile

BuildCall ==
  /\ call.op = "chars"
  /\ LET built == buildMapping(pairToRune, runeToPair, call.chars)
     IN /\ pairToRune' = built.pairToRune
        /\ runeToPair' = built.runeToPair
  /\ loads' = loads + 1
  /\ call' = [op |-> "buildMapping", chars |-> call.chars]
  /\ saved' = NoFile

NextBuild == BuildCall

SpecBuild == InitBuild /\ [][NextBuild]_vars

-----------------------------------------------------------------------------
(* SpecReload: one Codec used as an object: LoadDictionary, Encode and     *)
(* Decode called in any order, LoadDictionary more than once.              *)

ReloadTexts ==
  { DictText(19968, 300, 0),     \* 300 qualifying, U+4E00 ..
    DictText(20200, 256, 0),     \* 256 qualifying, 68 of them in the first text
    DictText(19968, 255, 0) }    \* 255 qualifying: fails to load

ReloadLoad ==
  /\ loads < MaxLoads
  /\ \E io \in {"ok", "unreadable"}, text \in ReloadTexts : LoadDictionary(io, text)

ReloadEncode ==
  \E io \in IOOutcomes, data \in ByteSeqs(MaxReloadLen), useBase64 \in BOOLEAN :
    Encode(io, data, useBase64)

ReloadDecode ==
  \E io \in IOOutcomes, text \in TokenTexts(MaxReloadLen), useBase64 \in BOOLEAN :
    Decode(io, text, useBase64)

NextReload == ReloadLoad \/ ReloadEncode \/ ReloadDecode

SpecReload == Init /\ [][NextReload]_vars

-----------------------------------------------------------------------------
(* Vocabulary of the properties.                                           *)

AlphabetBytes == {base64Charset[k] : k \in 1..64}

\* The pair of row-major index k: (alphabet[k div 64], alphabet[k mod 64]).
PairAt(k) == <<base64Charset[k \div 64 + 1], base64Charset[(k % 64) + 1]>>

IndexOf(b) == CHOOSE k \in 0..63 : base64Charset[k + 1] = b

IsAlphabetPair(seg) == seg[1] \in AlphabetBytes /\ seg[2] \in AlphabetBytes

\* The row-major index of an alphabet pair.
PairIndex(seg) == 64 * IndexOf(seg[1]) + IndexOf(seg[2])

Min(a, b) == IF a <= b THEN a ELSE b

\* pairToRune and runeToPair hold the same relation, read in both directions.
MutualInverses ==
  /\ \A p \in DOMAIN pairToRune :
       pairToRune[p] \in DOMAIN runeToPair /\ runeToPair[pairToRune[p]] = p
  /\ \A r \in DOMAIN runeToPair :
       runeToPair[r] \in DOMAIN pairToRune /\ pairToRune[runeToPair[r]] = r

Encoded == call.op = "Encode" /\ call.err = Nil
Decoded == call.op = "Decode" /\ call.io # "unreadable"
Loaded == call.op = "LoadDictionary" /\ call.io = "ok"

\* The positions of a dictionary text that hold the first occurrence of a
\* qualifying character.
FirstPositions(text) ==
  {p \in 1..Len(text) :
     isChineseChar(text[p]) /\ text[p] \notin {text[q] : q \in 1..(p - 1)}}

\* The number of distinct qualifying characters of a text.
QualifyingCount(text) ==
  Cardinality({r \in {text[p] : p \in 1..Len(text)} : isChineseChar(r)})

\* The segments of a padded text, and what encode is to emit for each.
NumSegments(text) == Len(text) \div 2
Segment(text, s) == <<text[2 * s - 1], text[2 * s]>>
IsMapped(text, s) ==
  IsAlphabetPair(Segment(text, s)) /\ Segment(text, s) \in DOMAIN pairToRune
IsUnmapped(text, s) ==
  IsAlphabetPair(Segment(text, s)) /\ Segment(text, s) \notin DOMAIN pairToRune
Piece(text, s) ==
  IF IsMapped(text, s) THEN EncodeRune(pairToRune[Segment(text, s)])
  ELSE Segment(text, s)

\* Where the piece of segment s starts in the output (0-based offset).
RECURSIVE PieceOffset(_, _)
PieceOffset(text, s) ==
  IF s = 1 THEN 0 ELSE PieceOffset(text, s - 1) + Len(Piece(text, s - 1))

\* A standard base64 text, CR and LF ignored as the standard decoder ignores
\* them: quanta of four symbols, the last one possibly ending in "=" or "==".
WellFormedBase64(text) ==
  LET t == SelectSeq(text, LAMBDA b : ~IsNewline(b))
      n == Len(t)
  IN /\ n % 4 = 0
     /\ \A i \in 1..n :
          \/ t[i] \in AlphabetBytes
          \/ /\ t[i] = PadByte
             /\ i >= n - 1
             /\ t[n] = PadByte

\* The number of bytes a well-formed base64 text stands for.
DecodedLength(text) ==
  LET t == SelectSeq(text, LAMBDA b : ~IsNewline(b))
  IN 3 * (Len(t) \div 4) - Cardinality({i \in 1..Len(t) : t[i] = PadByte})

-----------------------------------------------------------------------------
(* C1.  Round trip.                                                        *)

\* C1 (as claimed): for every byte sequence, both values of useBase64 and the
\* mapping of a dictionary that loaded, decodeData(encodeData(b, f), f)
\* returns exactly b and no error.
C1_RoundTrip ==
  Encoded =>
    decodeData(runeToPair, saved.content, call.useBase64)
      = [bytes |-> call.data, err |-> Nil]

-----------------------------------------------------------------------------
(* C2.  buildMapping on a fresh Codec (SpecBuild).                         *)

\* C2: after buildMapping on a fresh Codec with n distinct characters, both
\* maps hold exactly min(4096, n) entries and are mutual inverses; when
\* n >= 4096 every one of the 4096 alphabet pairs has an entry.
C2_BuildBijection ==
  call.op = "buildMapping" =>
    LET n == Len(call.chars)
    IN /\ Cardinality(DOMAIN pairToRune) = Min(maxPairs, n)
       /\ Cardinality(DOMAIN runeToPair) = Min(maxPairs, n)
       /\ MutualInverses
       /\ n >= maxPairs =>
            \A k \in 0..(maxPairs - 1) : PairAt(k) \in DOMAIN pairToRune

\* C2's case: buildMapping has run on more characters than there are pairs.
C2_Witness ==
  /\ call.op = "buildMapping"
  /\ Len(call.chars) > maxPairs
  /\ Cardinality(DOMAIN runeToPair) = maxPairs

-----------------------------------------------------------------------------
(* C3.  Row-major assignment in order of first occurrence.                 *)

\* C3: after a dictionary loads, the k-th distinct qualifying character of
\* its text (from 0, by first occurrence; other characters and repeats
\* skipped) is assigned to the pair (alphabet[k div 64], alphabet[k mod 64])
\* for every k < min(4096, n); pairs of index >= n and characters of index
\* >= 4096 have no entry.
C3_RowMajorAssignment ==
  (Loaded /\ call.err = Nil) =>
    LET text == call.text
        firsts == FirstPositions(text)
        n == Cardinality(firsts)
    IN /\ \A p \in firsts :
            LET k == Cardinality(firsts \cap (1..(p - 1)))
            IN IF k < maxPairs
               THEN /\ PairAt(k) \in DOMAIN pairToRune
                    /\ pairToRune[PairAt(k)] = text[p]
                    /\ text[p] \in DOMAIN runeToPair
                    /\ runeToPair[text[p]] = PairAt(k)
               ELSE text[p] \notin DOMAIN runeToPair
       /\ DOMAIN pairToRune = {PairAt(k) : k \in 0..(Min(maxPairs, n) - 1)}
       /\ DOMAIN runeToPair \subseteq {text[p] : p \in firsts}

\* C3's case: a loaded text with non-qualifying characters, repeats, and more
\* than 4096 distinct qualifying characters.
C3_Witness ==
  /\ Loaded
  /\ call.err = Nil
  /\ \E p \in 1..Len(call.text) : ~isChineseChar(call.text[p])
  /\ Cardinality({call.text[p] : p \in 1..Len(call.text)}) < Len(call.text)
  /\ QualifyingCount(call.text) > maxPairs
  /\ Cardinality(DOMAIN pairToRune) = maxPairs

-----------------------------------------------------------------------------
(* C4.  The threshold of LoadDictionary.                                   *)

\* C4: LoadDictionary on readable text fails with the insufficient-characters
\* error, carrying the found and required counts, exactly when fewer than 256
\* distinct qualifying characters are found; on that failure neither map
\* gains an entry.
C4_Threshold ==
  Loaded =>
    LET n == QualifyingCount(call.text)
    IN IF n < 256
       THEN /\ call.err = [kind |-> "insufficient Chinese characters",
                           found |-> n, need |-> 256]
            /\ pairToRune = EmptyMap
            /\ runeToPair = EmptyMap
       ELSE call.err = Nil

\* C4's case: a text with exactly 255 distinct qualifying characters was refused.
C4_Witness ==
  /\ Loaded
  /\ QualifyingCount(call.text) = 255
  /\ call.err # Nil

-----------------------------------------------------------------------------
(* C5.  Partial-coverage passthrough.                                      *)

\* C5 (as claimed): with a mapping built from n characters, 256 <= n < 4096,
\* every segment of the intermediate text that is an alphabet pair of index
\* >= n appears in the encoded output as its two bytes unchanged, and decoding
\* that output reproduces the two bytes at the same position of the rebuilt
\* text.
C5_Passthrough ==
  (Encoded /\ Cardinality(DOMAIN pairToRune) < maxPairs) =>
    LET text == paddedText(call.data, call.useBase64)
        n == Cardinality(DOMAIN pairToRune)
        out == saved.content
        rebuilt == rebuiltText(runeToPair, out)
    IN \A s \in 1..NumSegments(text) :
         (IsAlphabetPair(Segment(text, s)) /\ PairIndex(Segment(text, s)) >= n) =>
           /\ SubSeq(out, PieceOffset(text, s) + 1, PieceOffset(text, s) + 2)
                = Segment(text, s)
           /\ Len(rebuilt) >= 2 * s
           /\ Segment(rebuilt, s) = Segment(text, s)

-----------------------------------------------------------------------------
(* C6.  Malformed input of Decode in base64 mode.                          *)

\* C6: in base64 mode, whenever the text rebuilt by decode is not well-formed
\* standard base64, Decode ends with a decode error and writes no output
\* file; when Decode does write, the rebuilt text was well-formed and the file
\* holds every byte it stands for (nothing truncated).
C6_MalformedIsError ==
  (Decoded /\ call.useBase64) =>
    LET rebuilt == rebuiltText(runeToPair, call.text)
    IN /\ ~WellFormedBase64(rebuilt) =>
            /\ call.err.kind = "decode failed"
            /\ saved = NoFile
       /\ saved # NoFile =>
            /\ WellFormedBase64(rebuilt)
            /\ Len(saved.content) = DecodedLength(rebuilt)

\* C6's case: the input holds a dictionary character next to garbage, the
\* decoder had already produced bytes when it met the garbage, and Decode
\* reported the error.
C6_Witness ==
  /\ Decoded
  /\ call.useBase64
  /\ \E p \in 1..Len(call.text) :
       DecodeRune(call.text, p).rune \in DOMAIN runeToPair
  /\ ~WellFormedBase64(rebuiltText(runeToPair, call.text))
  /\ decodeData(runeToPair, call.text, TRUE).bytes # <<>>
  /\ call.err.kind = "decode failed"

-----------------------------------------------------------------------------
(* C7.  Padding to even length.                                            *)

\* What C7 says of the padding step itself: one '=' is appended exactly when
\* the intermediate text has odd length, so the partitioned text has even
\* length and its segments cover every byte once.
PadsToEven ==
  LET inter == intermediateText(call.data, call.useBase64)
      text == paddedText(call.data, call.useBase64)
  IN /\ text = (IF Len(inter) % 2 = 1 THEN inter \o <<PadByte>> ELSE inter)
     /\ Len(text) % 2 = 0
     /\ \A i \in 1..Len(text) :
          Cardinality({s \in 1..NumSegments(text) : i \in {2 * s - 1, 2 * s}}) = 1

\* C7 (as claimed): the padding step, and: in base64 mode a 1-byte input has
\* a base64 form of odd length, gets the '=' appended, and decoding discards
\* it again.
C7_AsClaimed ==
  Encoded =>
    /\ PadsToEven
    /\ (call.useBase64 /\ Len(call.data) = 1) =>
         /\ Len(intermediateText(call.data, TRUE)) % 2 = 1
         /\ decodeData(runeToPair, saved.content, TRUE)
              = [bytes |-> call.data, err |-> Nil]

\* C7 (amended): the padding step; in base64 mode the intermediate text has a
\* length that is a multiple of 4, nothing is appended, and decoding the
\* output gives back the input; in raw mode an input of odd length gets the
\* '=' appended, and decoding the output returns it as the last byte.
C7_Padding ==
  Encoded =>
    /\ PadsToEven
    /\ call.useBase64 =>
         /\ Len(intermediateText(call.data, TRUE)) % 4 = 0
         /\ paddedText(call.data, TRUE) = intermediateText(call.data, TRUE)
         /\ decodeData(runeToPair, saved.content, TRUE)
              = [bytes |-> call.data, err |-> Nil]
    /\ (~call.useBase64 /\ Len(call.data) % 2 = 1) =>
         LET back == decodeData(runeToPair, saved.content, FALSE)
         IN /\ back.err = Nil
            /\ Len(back.bytes) > Len(call.data)
            /\ back.bytes[Len(back.bytes)] = PadByte

\* C7's case: an input of odd length was encoded in raw mode and the '=' was
\* appended.
C7_Witness ==
  /\ Encoded
  /\ ~call.useBase64
  /\ Len(call.data) = 3
  /\ saved.content[Len(saved.content)] = PadByte

-----------------------------------------------------------------------------
(* C8.  The segment policy of encode.                                      *)

\* C8: the output of encode is, segment by segment and in order, the mapped
\* character for an alphabet pair the mapping holds, and the two original
\* bytes for an alphabet pair it does not hold and for a segment with a byte
\* outside the alphabet; the unmapped count is the number of alphabet pairs
\* the mapping does not hold.
C8_SegmentPolicy ==
  Encoded =>
    LET text == paddedText(call.data, call.useBase64)
        out == saved.content
        m == NumSegments(text)
    IN /\ \A s \in 1..m :
            SubSeq(out, PieceOffset(text, s) + 1,
                        PieceOffset(text, s) + Len(Piece(text, s)))
              = Piece(text, s)
       /\ Len(out) = PieceOffset(text, m + 1)
       /\ call.unmapped = Cardinality({s \in 1..m : IsUnmapped(text, s)})

\* C8's case: one encode met a mapped pair, an unmapped alphabet pair and a
\* segment with '='.
C8_Witness ==
  /\ Encoded
  /\ LET text == paddedText(call.data, call.useBase64)
     IN /\ \E s \in 1..NumSegments(text) : IsMapped(text, s)
        /\ \E s \in 1..NumSegments(text) : IsUnmapped(text, s)
        /\ \E s \in 1..NumSegments(text) : PadByte \in {text[2 * s - 1], text[2 * s]}

-----------------------------------------------------------------------------
(* C9.  Passthrough of decode.                                             *)

\* C9 (as claimed): for an input that holds no dictionary character, raw
\* input of arbitrary bytes included, the text decode rebuilds is byte for
\* byte the input.
C9_Passthrough ==
  Decoded =>
    ((\A p \in 1..Len(call.text) :
        DecodeRune(call.text, p).rune \notin DOMAIN runeToPair)
      => rebuiltText(runeToPair, call.text) = call.text)

-----------------------------------------------------------------------------
(* C10.  The maps over any sequence of calls (SpecReload).                 *)

\* C10 (as claimed): after any sequence of LoadDictionary, Encode and Decode
\* calls on one Codec the two maps are mutual inverses of equal size with at
\* most 4096 entries, and Encode and Decode never change either map.
C10_MapsConsistent ==
  /\ MutualInverses
  /\ Cardinality(DOMAIN pairToRune) = Cardinality(DOMAIN runeToPair)
  /\ Cardinality(DOMAIN pairToRune) <= maxPairs

====
